---- MODULE Spec2Model ----
(***************************************************************************)
(* Lead allocation across marketing campaigns (streamlit_app.py).          *)
(*                                                                         *)
(* One run of main() is modelled as a state machine: the campaigns are     *)
(* entered (CSV upload or manual widgets), the optimisation parameters are *)
(* set, the "Esegui Analisi di Scenario" button runs the minimum-budget    *)
(* pre-check, solve_mip for Scenario A, solve_mip for Scenario B           *)
(* (budget 1e9), and the comparison is rendered.                           *)
(*                                                                         *)
(* Numbers.  Money amounts are whole euros.  The three sliders move in     *)
(* steps of 0.01, so a fraction f is held as the integer f * PctDen.       *)
(* Quantities that the code multiplies by such a fraction are held times   *)
(* PctDen (the objective value), or compared after cross-multiplying.      *)
(* The arithmetic is exact; the code's binary floating point and the       *)
(* solver's tolerances are not modelled.                                   *)
(*                                                                         *)
(* The CBC solver behind prob.solve is modelled by its contract: over the  *)
(* integer points that satisfy every constraint of the problem it returns  *)
(* one that maximises the objective (any of them, when several do), or a   *)
(* non-Optimal status when there is none.                                  *)
(***************************************************************************)
EXTENDS Integers, Sequences, FiniteSets

VARIABLES
    pc,               \* position of the run inside main()
    mode,             \* st.radio: "Carica CSV" | "Inserimento manuale"
    campaigns,        \* the list of campaign dicts
    weight_immediate, \* slider, in hundredths
    total_leads,      \* number_input
    corpo_percent,    \* slider, in hundredths
    min_share,        \* slider, in hundredths
    budget_max_A,     \* number_input, euros
    resA,             \* (statusA, xA, profitA)
    resB,             \* (statusB, xB, profitB)
    dfA,              \* compute_solution_df(campaigns, xA, ...)
    dfB,              \* compute_solution_df(campaigns, xB, ...)
    shown,            \* what the run displayed: tables and the B - A deltas
    err               \* the st.error / st.info the run ended with

vars == <<pc, mode, campaigns, weight_immediate, total_leads, corpo_percent,
          min_share, budget_max_A, resA, resB, dfA, dfB, shown, err>>

----------------------------------------------------------------------------
(* Bounds of the model and constants of the program *)

MaxCampaigns == 3

MaxLeads == 4

PctDen == 100

MinTotalLeads == 1

MinManualCampaigns == 2

UnlimitedBudget == 1000000000

----------------------------------------------------------------------------
(* Helpers *)

None == <<>>

Some(v) == <<v>>

RECURSIVE SumOver(_, _)
SumOver(f, S) ==
    IF S = {} THEN 0
    ELSE LET i == CHOOSE j \in S : TRUE
         IN f[i] + SumOver(f, S \ {i})

RECURSIVE SortedSeq(_)
SortedSeq(S) ==
    IF S = {} THEN <<>>
    ELSE LET m == CHOOSE j \in S : \A k \in S : k <= j
         IN Append(SortedSeq(S \ {m}), m)

\* int(round(num / den)) for den > 0: Python 3 rounds halves to the even integer
RoundHalfEven(num, den) ==
    LET q == num \div den
        r == num % den
    IN IF 2 * r < den THEN q
       ELSE IF 2 * r > den THEN q + 1
       ELSE IF q % 2 = 0 THEN q ELSE q + 1

----------------------------------------------------------------------------
(* Inputs *)

\* str(cell).lower().strip() on the category cells the CSV rows below carry
LowerStrip(s) ==
    CASE s = "Laser"   -> "laser"
      [] s = " Corpo " -> "corpo"
      [] s = "CORPO"   -> "corpo"
      [] OTHER         -> s

\* The campaign rows the inputs are drawn from.  raw is the text of the
\* "categoria campagna" cell when the row comes from a CSV file.
Catalogue ==
    <<[name |-> "laser_a", raw |-> "Laser",   category |-> "laser",
       cost |-> 10, revenue |-> 30, revenue_60d |-> 40],
      [name |-> "corpo_a", raw |-> " Corpo ", category |-> "corpo",
       cost |-> 15, revenue |-> 50, revenue_60d |-> 40],
      [name |-> "laser_b", raw |-> "laser",   category |-> "laser",
       cost |-> 0, revenue |-> 5, revenue_60d |-> 50],
      [name |-> "corpo_b", raw |-> "CORPO",   category |-> "corpo",
       cost |-> 300000000, revenue |-> 300000090, revenue_60d |-> 300000010],
      [name |-> "laser_c", raw |-> "laser",   category |-> "laser",
       cost |-> -5, revenue |-> 10, revenue_60d |-> 10]>>

\* The widgets of the manual form refuse values below 0.0
ManualRows == {i \in DOMAIN Catalogue :
                 /\ Catalogue[i].cost >= 0
                 /\ Catalogue[i].revenue >= 0
                 /\ Catalogue[i].revenue_60d >= 0}

RowLists(rows, lo, hi) ==
    {[k \in DOMAIN SortedSeq(S) |-> Catalogue[SortedSeq(S)[k]]] :
        S \in {T \in SUBSET rows : Cardinality(T) >= lo /\ Cardinality(T) <= hi}}

CsvInputs == RowLists(DOMAIN Catalogue, 0, MaxCampaigns)

ManualInputs == RowLists(ManualRows, MinManualCampaigns, MaxCampaigns)

WeightChoices == {50, 100}

LeadChoices == MinTotalLeads .. MaxLeads

CorpoChoices == {0, 30, 100}

ShareChoices == {0, 20, 50, 60}

BudgetChoices == {50, 2000, 2000000000}

----------------------------------------------------------------------------
(* solve_mip: the problem *)

Indices(camps) == DOMAIN camps

\* (camp.revenue - camp.cost) * w + (camp.revenue_60d - camp.cost) * (1 - w),
\* times PctDen
weighted_profit(camp, w) ==
    (camp.revenue - camp.cost) * w + (camp.revenue_60d - camp.cost) * (PctDen - w)

\* the objective "Total_Weighted_Profit", times PctDen
Objective(camps, x, w) ==
    SumOver([i \in Indices(camps) |-> weighted_profit(camps[i], w) * x[i]],
            Indices(camps))

corpo_indices(camps) == {i \in Indices(camps) : camps[i].category = "corpo"}

cat_dict(camps) ==
    [c \in {camps[i].category : i \in Indices(camps)} |->
        {i \in Indices(camps) : camps[i].category = c}]

\* Variant: the corpo floor added whether or not a corpo campaign exists
HasMinimoCorpo_Always(camps) == TRUE

\* if corpo_indices:
HasMinimoCorpo(camps) == corpo_indices(camps) # {}

\* Variant: the share constraints start at three campaigns per category
HasMinShare_OverTwo(indices) == Cardinality(indices) > 2

\* if len(indices) > 1:
HasMinShare(indices) == Cardinality(indices) > 1

\* The named constraints added to prob ("MinShare_{category}_{j}" is held as
\* the record of its category and index)
ConstraintSet(camps) ==
    {[name |-> "Totale_lead", category |-> "", j |-> 0]}
    \cup (IF HasMinimoCorpo(camps)
          THEN {[name |-> "Minimo_corpo", category |-> "corpo", j |-> 0]}
          ELSE {})
    \cup UNION {{[name |-> "MinShare", category |-> c, j |-> k] :
                    k \in cat_dict(camps)[c]} :
                c \in {d \in DOMAIN cat_dict(camps) :
                          HasMinShare(cat_dict(camps)[d])}}
    \cup {[name |-> "BudgetMax", category |-> "", j |-> 0]}

\* Variant: the total as a floor, lpSum(x) >= total_leads
TotaleLeadHolds_AtLeast(camps, x, T) ==
    SumOver(x, Indices(camps)) >= T

\* lpSum(x) == total_leads
TotaleLeadHolds(camps, x, T) ==
    SumOver(x, Indices(camps)) = T

\* lpSum(x[i] for i in corpo_indices) >= corpo_percent * total_leads
MinimoCorpoHolds(camps, x, T, cp) ==
    PctDen * SumOver(x, corpo_indices(camps)) >= cp * T

\* Variant: the share taken of the campaign's own leads, x[j] >= min_share * x[j]
MinShareHolds_OwnLeads(camps, x, ms, c, j) ==
    PctDen * x[j] >= ms * x[j]

\* x[j] >= min_share * sum_cat
MinShareHolds(camps, x, ms, c, j) ==
    PctDen * x[j] >= ms * SumOver(x, cat_dict(camps)[c])

\* lpSum(cost_i * x_i) <= budget_max
TotalCost(camps, x) ==
    SumOver([i \in Indices(camps) |-> camps[i].cost * x[i]], Indices(camps))

\* Variant: the budget constraint left out
BudgetMaxHolds_Absent(camps, x, budget) == TRUE

BudgetMaxHolds(camps, x, budget) ==
    TotalCost(camps, x) <= budget

Holds(con, camps, x, T, cp, ms, budget) ==
    CASE con.name = "Totale_lead"  -> TotaleLeadHolds(camps, x, T)
      [] con.name = "Minimo_corpo" -> MinimoCorpoHolds(camps, x, T, cp)
      [] con.name = "MinShare"     -> MinShareHolds(camps, x, ms, con.category, con.j)
      [] con.name = "BudgetMax"    -> BudgetMaxHolds(camps, x, budget)

\* x_i: LpVariable(lowBound=0, cat="Integer"), with no upper bound.  The
\* enumeration covers 0 .. total_leads + 1 for each variable: it is the
\* constraint "Totale_lead", not the enumeration, that excludes the points
\* whose sum is not total_leads.
Points(camps, T) == [Indices(camps) -> 0 .. (T + 1)]

FeasiblePoints(camps, T, cp, ms, budget) ==
    {x \in Points(camps, T) :
        \A con \in ConstraintSet(camps) : Holds(con, camps, x, T, cp, ms, budget)}

\* prob.solve(PULP_CBC_CMD): the statuses of a problem without integer points
NonOptimalStatuses == {"Infeasible", "Undefined"}

\* The possible return values of solve_mip
solve_mip(camps, T, cp, ms, budget, w) ==
    LET feas == FeasiblePoints(camps, T, cp, ms, budget)
        objs == {Objective(camps, x, w) : x \in feas}
        maxv == CHOOSE v \in objs : \A u \in objs : u <= v
    IN IF feas = {}
       THEN {[status |-> s, x_values |-> None, profit |-> None] :
                s \in NonOptimalStatuses}
       ELSE {[status |-> "Optimal", x_values |-> Some(x), profit |-> Some(maxv)] :
                x \in {y \in feas : Objective(camps, y, w) = maxv}}

----------------------------------------------------------------------------
(* compute_solution_df *)

NoTable == <<>>

Row(camp, leads, w) ==
    LET margin_immediate_t == (camp.revenue - camp.cost) * leads
        margin_60d_t       == (camp.revenue_60d - camp.cost) * leads
    IN [Campagna          |-> camp.name,
        Categoria         |-> camp.category,
        Leads             |-> leads,
        Costo_Tot         |-> RoundHalfEven(camp.cost * leads, 1),
        Ricavo_Tot        |-> RoundHalfEven(camp.revenue * leads, 1),
        Ricavo_60gg_Tot   |-> RoundHalfEven(camp.revenue_60d * leads, 1),
        Margine_Immediato |-> RoundHalfEven(margin_immediate_t, 1),
        Margine_60gg      |-> RoundHalfEven(margin_60d_t, 1),
        Margine_Pesato    |-> RoundHalfEven(margin_immediate_t * w
                                            + margin_60d_t * (PctDen - w), PctDen)]

\* x_values is the solver's list; leads = int(round(x_values[i] or 0))
compute_solution_df(camps, x_values, w) ==
    LET I        == Indices(camps)
        leads    == [i \in I |-> RoundHalfEven(x_values[i], 1)]
        lead_sum == SumOver(leads, I)
        cost_sum == SumOver([i \in I |-> camps[i].cost * leads[i]], I)
        revenue_sum == SumOver([i \in I |-> camps[i].revenue * leads[i]], I)
        revenue_60d_sum == SumOver([i \in I |-> camps[i].revenue_60d * leads[i]], I)
        margin_immediate_sum ==
            SumOver([i \in I |-> (camps[i].revenue - camps[i].cost) * leads[i]], I)
        margin_60d_sum ==
            SumOver([i \in I |-> (camps[i].revenue_60d - camps[i].cost) * leads[i]], I)
        weighted_margin_sum ==
            SumOver([i \in I |-> (camps[i].revenue - camps[i].cost) * leads[i] * w
                                 + (camps[i].revenue_60d - camps[i].cost) * leads[i]
                                   * (PctDen - w)], I)
    IN <<[rows   |-> [i \in I |-> Row(camps[i], leads[i], w)],
          TOTALE |-> [Campagna          |-> "",
                      Categoria         |-> "",
                      Leads             |-> lead_sum,
                      Costo_Tot         |-> RoundHalfEven(cost_sum, 1),
                      Ricavo_Tot        |-> RoundHalfEven(revenue_sum, 1),
                      Ricavo_60gg_Tot   |-> RoundHalfEven(revenue_60d_sum, 1),
                      Margine_Immediato |-> RoundHalfEven(margin_immediate_sum, 1),
                      Margine_60gg      |-> RoundHalfEven(margin_60d_sum, 1),
                      Margine_Pesato    |-> RoundHalfEven(weighted_margin_sum, PctDen)]]>>

----------------------------------------------------------------------------
(* main *)

NotRun == [status |-> "NotRun", x_values |-> None, profit |-> None]

NothingShown == <<>>

\* Variant: the minimum computed without min_share, camp.cost * total_leads
BudgetBelowMinimum_NoShare(camps, ms, T, budget) ==
    budget < SumOver([i \in Indices(camps) |-> camps[i].cost], Indices(camps)) * T

\* budget_max_A < min_budget_needed, where
\*   min_budget_needed = sum of camp.cost * (min_share * total_leads).
\* With K = min_share * total_leads * PctDen and C = 100 * a + b the sum of the
\* costs, min_budget_needed = K * a + (K * b) / 100; the comparison is made
\* on the whole euros and on the hundredths, so that no intermediate product
\* leaves the range of 32-bit integers.
BudgetBelowMinimum(camps, ms, T, budget) ==
    LET K     == ms * T
        C     == SumOver([i \in Indices(camps) |-> camps[i].cost], Indices(camps))
        a     == C \div PctDen
        b     == C % PctDen
        whole == K * a + ((K * b) \div PctDen)
        frac  == (K * b) % PctDen
    IN budget < whole \/ (budget = whole /\ frac > 0)

\* Variant: only the status "Infeasible" is treated as a failure
NotOptimal_OnlyInfeasible(status) == status = "Infeasible"

\* if statusA != "Optimal": / if statusB != "Optimal":
NotOptimal(status) == status # "Optimal"

Init ==
    /\ pc = "input"
    /\ mode = "none"
    /\ campaigns = <<>>
    /\ weight_immediate = 50
    /\ total_leads = MinTotalLeads
    /\ corpo_percent = 0
    /\ min_share = 0
    /\ budget_max_A = 0
    /\ resA = NotRun
    /\ resB = NotRun
    /\ dfA = NoTable
    /\ dfB = NoTable
    /\ shown = NothingShown
    /\ err = ""

Untouched_results == UNCHANGED <<resA, resB, dfA, dfB, shown>>

Untouched_params ==
    UNCHANGED <<weight_immediate, total_leads, corpo_percent, min_share, budget_max_A>>

\* mode == "Carica CSV": the rows of the uploaded file become the campaigns;
\* without the required columns st.error is shown and the list stays empty.
\* An empty list ends the run with st.info.
UploadCSV(rows, columns_ok) ==
    /\ pc = "input"
    /\ mode' = "csv"
    /\ campaigns' = IF columns_ok
                    THEN [k \in DOMAIN rows |->
                            [name        |-> rows[k].name,
                             category    |-> LowerStrip(rows[k].raw),
                             cost        |-> rows[k].cost,
                             revenue     |-> rows[k].revenue,
                             revenue_60d |-> rows[k].revenue_60d]]
                    ELSE <<>>
    /\ pc' = IF campaigns' = <<>> THEN "end" ELSE "params"
    /\ err' = IF ~columns_ok THEN "missing_columns"
              ELSE IF campaigns' = <<>> THEN "no_campaigns" ELSE ""
    /\ Untouched_params
    /\ Untouched_results

\* mode == "Inserimento manuale": n campaigns read from the widgets
ManualEntry(rows) ==
    /\ pc = "input"
    /\ Len(rows) >= MinManualCampaigns
    /\ mode' = "manual"
    /\ campaigns' = [k \in DOMAIN rows |->
                        [name        |-> rows[k].name,
                         category    |-> rows[k].category,
                         cost        |-> rows[k].cost,
                         revenue     |-> rows[k].revenue,
                         revenue_60d |-> rows[k].revenue_60d]]
    /\ pc' = "params"
    /\ UNCHANGED err
    /\ Untouched_params
    /\ Untouched_results

\* The sliders and number inputs under "Parametri di Ottimizzazione"
SetParameters(w, T, cp, ms, budget) ==
    /\ pc = "params"
    /\ T >= MinTotalLeads
    /\ budget >= 0
    /\ weight_immediate' = w
    /\ total_leads' = T
    /\ corpo_percent' = cp
    /\ min_share' = ms
    /\ budget_max_A' = budget
    /\ pc' = "button"
    /\ UNCHANGED <<mode, campaigns, err>>
    /\ Untouched_results

\* The button is pressed: the minimum-budget check
PreCheck ==
    /\ pc = "button"
    /\ IF BudgetBelowMinimum(campaigns, min_share, total_leads, budget_max_A)
       THEN pc' = "end" /\ err' = "budget_insufficient"
       ELSE pc' = "scenarioA" /\ UNCHANGED err
    /\ UNCHANGED <<mode, campaigns>>
    /\ Untouched_params
    /\ Untouched_results

\* statusA, xA, profitA = solve_mip(..., budget_max_A, ...); dfA
ScenarioA ==
    /\ pc = "scenarioA"
    /\ \E r \in solve_mip(campaigns, total_leads, corpo_percent, min_share,
                          budget_max_A, weight_immediate) :
          /\ resA' = r
          /\ IF NotOptimal(r.status)
             THEN pc' = "end" /\ err' = "scenarioA_not_optimal" /\ UNCHANGED dfA
             ELSE IF r.x_values = None
             THEN \* x_values[i] on None: TypeError, the run stops with a traceback
                  pc' = "fault" /\ UNCHANGED <<dfA, err>>
             ELSE /\ pc' = "scenarioB"
                  /\ dfA' = compute_solution_df(campaigns, r.x_values[1],
                                                weight_immediate)
                  /\ UNCHANGED err
    /\ UNCHANGED <<mode, campaigns, resB, dfB, shown>>
    /\ Untouched_params

\* statusB, xB, profitB = solve_mip(..., 1e9, ...); dfB
ScenarioB ==
    /\ pc = "scenarioB"
    /\ \E r \in solve_mip(campaigns, total_leads, corpo_percent, min_share,
                          UnlimitedBudget, weight_immediate) :
          /\ resB' = r
          /\ IF NotOptimal(r.status)
             THEN pc' = "end" /\ err' = "scenarioB_not_optimal" /\ UNCHANGED dfB
             ELSE IF r.x_values = None
             THEN \* x_values[i] on None: TypeError, the run stops with a traceback
                  pc' = "fault" /\ UNCHANGED <<dfB, err>>
             ELSE /\ pc' = "render"
                  /\ dfB' = compute_solution_df(campaigns, r.x_values[1],
                                                weight_immediate)
                  /\ UNCHANGED err
    /\ UNCHANGED <<mode, campaigns, resA, dfA, shown>>
    /\ Untouched_params

\* st.table(dfA), st.table(dfB) and the differences B - A
Render ==
    /\ pc = "render"
    /\ LET totA == dfA[1].TOTALE
           totB == dfB[1].TOTALE
       IN shown' = <<[tableA |-> dfA[1],
                      tableB |-> dfB[1],
                      extra_cost       |-> totB.Costo_Tot - totA.Costo_Tot,
                      extra_margin_imm |-> totB.Margine_Immediato - totA.Margine_Immediato,
                      extra_margin_60d |-> totB.Margine_60gg - totA.Margine_60gg,
                      extra_margin_w   |-> totB.Margine_Pesato - totA.Margine_Pesato,
                      extra_leads      |-> totB.Leads - totA.Leads]>>
    /\ pc' = "end"
    /\ UNCHANGED <<mode, campaigns, resA, resB, dfA, dfB, err>>
    /\ Untouched_params

\* Any interaction reruns the script from the top
Rerun ==
    /\ pc \in {"end", "fault"}
    /\ pc' = "input"
    /\ mode' = "none"
    /\ campaigns' = <<>>
    /\ weight_immediate' = 50
    /\ total_leads' = MinTotalLeads
    /\ corpo_percent' = 0
    /\ min_share' = 0
    /\ budget_max_A' = 0
    /\ resA' = NotRun
    /\ resB' = NotRun
    /\ dfA' = NoTable
    /\ dfB' = NoTable
    /\ shown' = NothingShown
    /\ err' = ""

Next ==
    \/ \E rows \in CsvInputs, ok \in BOOLEAN : UploadCSV(rows, ok)
    \/ \E rows \in ManualInputs : ManualEntry(rows)
    \/ \E w \in WeightChoices, T \in LeadChoices, cp \in CorpoChoices,
          ms \in ShareChoices, budget \in BudgetChoices :
          SetParameters(w, T, cp, ms, budget)
    \/ PreCheck
    \/ ScenarioA
    \/ ScenarioB
    \/ Render
    \/ Rerun

Spec == Init /\ [][Next]_vars

----------------------------------------------------------------------------
(* The concrete scenario: laser (cost 10, revenue 30) and corpo (cost 15,   *)
(* revenue 50), 100 leads, corpo_percent 0.3, min_share 0.2, budget 2000,   *)
(* weight_immediate 1.  The 60-day revenues, which weight 1 leaves without  *)
(* effect, and the way the campaigns are entered are left open.             *)

Rev60Choices == {0, 30, 40, 50, 60}

ScenarioInputs ==
    {<<[name |-> "laser", raw |-> "Laser", category |-> "laser",
        cost |-> 10, revenue |-> 30, revenue_60d |-> a],
       [name |-> "corpo", raw |-> " Corpo ", category |-> "corpo",
        cost |-> 15, revenue |-> 50, revenue_60d |-> b]>> :
        a \in Rev60Choices, b \in Rev60Choices}

NextScenario ==
    \/ \E rows \in ScenarioInputs : UploadCSV(rows, TRUE)
    \/ \E rows \in ScenarioInputs : ManualEntry(rows)
    \/ SetParameters(100, 100, 30, 20, 2000)
    \/ PreCheck
    \/ ScenarioA
    \/ ScenarioB
    \/ Render
    \/ Rerun

SpecScenario == Init /\ [][NextScenario]_vars

----------------------------------------------------------------------------
(* Properties *)

xA == resA.x_values[1]

xB == resB.x_values[1]

Leads(x, S) == SumOver(x, S)

IsLeadVector(x) ==
    /\ DOMAIN x = Indices(campaigns)
    /\ \A i \in DOMAIN x : x[i] \in Nat

\* -((-a) \div b) is the ceiling of a / b
Ceil(a, b) == -((-a) \div b)

MultiCategories == {c \in DOMAIN cat_dict(campaigns) :
                       Cardinality(cat_dict(campaigns)[c]) >= 2}

SingleCategories == {c \in DOMAIN cat_dict(campaigns) :
                        Cardinality(cat_dict(campaigns)[c]) = 1}

\* C1: every Optimal result of solve_mip is a vector of non-negative integers
\* whose sum is total_leads, the Leads cell of the TOTALE row equals
\* total_leads, and extra_leads of a rendered comparison is 0.
C1_LeadsSumToTotal ==
    /\ resA.status = "Optimal" =>
          /\ IsLeadVector(xA)
          /\ Leads(xA, Indices(campaigns)) = total_leads
          /\ dfA # NoTable /\ dfA[1].TOTALE.Leads = total_leads
    /\ resB.status = "Optimal" =>
          /\ IsLeadVector(xB)
          /\ Leads(xB, Indices(campaigns)) = total_leads
          /\ dfB # NoTable /\ dfB[1].TOTALE.Leads = total_leads
    /\ shown # NothingShown => shown[1].extra_leads = 0

C1_Witness ==
    /\ shown # NothingShown
    /\ total_leads >= 3
    /\ Cardinality({i \in Indices(campaigns) : xA[i] > 0}) >= 2
    /\ xA # xB

\* C2: with a corpo campaign, the corpo leads of an Optimal result are at
\* least corpo_percent * total_leads, hence at least its ceiling; without a
\* corpo campaign no floor is in the problem and solve_mip is Optimal exactly
\* when it is with corpo_percent = 0.
C2_CorpoFloor ==
    /\ \A r \in {resA, resB} :
          (r.status = "Optimal" /\ corpo_indices(campaigns) # {}) =>
             /\ PctDen * Leads(r.x_values[1], corpo_indices(campaigns))
                   >= corpo_percent * total_leads
             /\ Leads(r.x_values[1], corpo_indices(campaigns))
                   >= Ceil(corpo_percent * total_leads, PctDen)
    /\ (resA.status # "NotRun" /\ corpo_indices(campaigns) = {}) =>
          /\ \A con \in ConstraintSet(campaigns) : con.name # "Minimo_corpo"
          /\ (resA.status = "Optimal") <=>
                (\E r \in solve_mip(campaigns, total_leads, 0, min_share,
                                    budget_max_A, weight_immediate) :
                    r.status = "Optimal")

C2_Witness ==
    /\ resA.status = "Optimal"
    /\ corpo_percent > 0
    /\ corpo_indices(campaigns) # {}
    /\ corpo_indices(campaigns) # Indices(campaigns)
    /\ Leads(xA, corpo_indices(campaigns)) = Ceil(corpo_percent * total_leads, PctDen)
    /\ Leads(xA, corpo_indices(campaigns)) < total_leads

\* C3: in every Optimal result each campaign of a category with two or more
\* campaigns has at least min_share of the leads of its category; a category
\* with exactly one campaign has no share constraint in the problem.
C3_StrongShare ==
    /\ \A r \in {resA, resB} :
          r.status = "Optimal" =>
             \A c \in MultiCategories : \A j \in cat_dict(campaigns)[c] :
                PctDen * r.x_values[1][j]
                   >= min_share * Leads(r.x_values[1], cat_dict(campaigns)[c])
    /\ \A c \in SingleCategories :
          \A con \in ConstraintSet(campaigns) :
             ~(con.name = "MinShare" /\ con.category = c)

C3_Witness ==
    /\ resA.status = "Optimal"
    /\ min_share > 0
    /\ SingleCategories # {}
    /\ \E c \in MultiCategories :
          /\ Leads(xA, cat_dict(campaigns)[c]) >= 2
          /\ \E j \in cat_dict(campaigns)[c] :
                PctDen * xA[j] < 2 * min_share * Leads(xA, cat_dict(campaigns)[c])

\* C4: the spend of every Optimal result is at most the budget it was solved
\* with: budget_max_A for Scenario A, 1e9 for Scenario B.
C4_BudgetCeiling ==
    /\ resA.status = "Optimal" =>
          /\ TotalCost(campaigns, xA) <= budget_max_A
          /\ dfA[1].TOTALE.Costo_Tot <= budget_max_A
    /\ resB.status = "Optimal" =>
          TotalCost(campaigns, xB) <= UnlimitedBudget

C4_Witness ==
    /\ resA.status = "Optimal"
    /\ resB.status = "Optimal"
    /\ TotalCost(campaigns, xB) > budget_max_A
    /\ TotalCost(campaigns, xA) > 0

\* C5: whenever Scenario A is Optimal, Scenario B is Optimal too with an
\* objective value at least that of A, and the rendered extra weighted margin
\* is not negative.
C5_BudgetMonotone ==
    /\ resB.status # "NotRun" =>
          /\ resB.status = "Optimal"
          /\ resB.profit[1] >= resA.profit[1]
    /\ shown # NothingShown => shown[1].extra_margin_w >= 0

\* A category with two or more campaigns whose min_share * count exceeds 1
Oversubscribed == {c \in MultiCategories :
                      min_share * Cardinality(cat_dict(campaigns)[c]) > PctDen}

C7_PreCheckRejectsOnlyUnsolvable ==
    err = "budget_insufficient" =>
       \A r \in solve_mip(campaigns, total_leads, corpo_percent, min_share,
                          budget_max_A, weight_immediate) :
          r.status # "Optimal"

\* C8: solve_mip is never invoked with a negative cost or revenue, with
\* total_leads <= 0, or with min_share * (campaigns in a category of two or
\* more) > 1.
C8_ConfigurationCheckedBeforeSolving ==
    resA.status # "NotRun" =>
       /\ \A i \in Indices(campaigns) :
             /\ campaigns[i].cost >= 0
             /\ campaigns[i].revenue >= 0
             /\ campaigns[i].revenue_60d >= 0
       /\ total_leads > 0
       /\ Oversubscribed = {}

\* C9: in the concrete scenario the run passes the pre-check, Scenario A is
\* Optimal with at least 30 corpo leads, 100 leads in all and a spend of at
\* most 2000, and its objective value is at most that of the run with
\* budget 1e9.
C9_ConcreteScenario ==
    /\ err = ""
    /\ pc # "fault"
    /\ resA.status # "NotRun" =>
          /\ resA.status = "Optimal"
          /\ Leads(xA, corpo_indices(campaigns)) >= 30
          /\ Leads(xA, Indices(campaigns)) = 100
          /\ TotalCost(campaigns, xA) <= 2000
    /\ resB.status # "NotRun" =>
          /\ resB.status = "Optimal"
          /\ resA.profit[1] <= resB.profit[1]

C9_Witness ==
    /\ shown # NothingShown
    /\ total_leads = 100
    /\ budget_max_A = 2000
    /\ resB.status = "Optimal"

\* C10: solve_mip carries an assignment and an objective value exactly when
\* its status is Optimal; Scenario B is solved only after Scenario A returned
\* Optimal; tables and deltas are shown only when both returned Optimal; a
\* non-Optimal status ends the run with its error, without a table and
\* without a fault.
C10_OutcomeAndOrder ==
    /\ \A r \in {resA, resB} :
          /\ (r.status = "Optimal") <=> (r.x_values # None)
          /\ (r.status = "Optimal") <=> (r.profit # None)
    /\ resB.status # "NotRun" => resA.status = "Optimal"
    /\ (dfA # NoTable) <=> (resA.status = "Optimal")
    /\ (dfB # NoTable) <=> (resB.status = "Optimal")
    /\ shown # NothingShown => resA.status = "Optimal" /\ resB.status = "Optimal"
    /\ resA.status \notin {"NotRun", "Optimal"} =>
          pc = "end" /\ err = "scenarioA_not_optimal" /\ shown = NothingShown
                     /\ resB = NotRun
    /\ resB.status \notin {"NotRun", "Optimal"} =>
          pc = "end" /\ err = "scenarioB_not_optimal" /\ shown = NothingShown
    /\ pc # "fault"

C10_Witness ==
    /\ resA.status = "Undefined"
    /\ resB = NotRun
    /\ pc = "end"
    /\ err = "scenarioA_not_optimal"
    /\ ~BudgetBelowMinimum(campaigns, min_share, total_leads, budget_max_A)

====
